---- MODULE Spec2Model ----
(***************************************************************************)
(* State-machine model of spine_dashboard.py: load_and_analyze_csv and the *)
(* helpers it calls.  One action per stage of the function; the cycle      *)
(* reconstruction loop takes one step per sample.                          *)
(*                                                                         *)
(* Number representation.  Timestamps and accelerometer readings are       *)
(* integers, as in the code.  Angles are integer degrees: atan2 is rounded *)
(* up to the next whole degree, so that an angle is 0 only when the code's *)
(* is, and the inputs of load_and_analyze_csv are chosen so that atan2 is  *)
(* an exact number of degrees.  Quotients the code computes in floating    *)
(* point are kept as integers in a finer unit (see each definition).       *)
(***************************************************************************)
EXTENDS Integers, Sequences, FiniteSets, TLC

VARIABLES
    file,                       \* the records of the CSV file, in file order
    pc,                         \* position in load_and_analyze_csv
    loaded,                     \* rows as parsed, before trimming
    rows,                       \* `rows`, after trimming once pc is past "trim"
    diag,                       \* which diagnostic the trimming printed
    i,                          \* index of the next sample of the loop
    reading_cycles,             \* emitted cycles: <<start, cycle>>
    current_cycle,              \* the open cycle: <<sid, ts, angle>> entries
    current_cycle_start_time,   \* <<>> for None, <<ts>> otherwise
    time_frames,                \* cycle time -> (sid -> angle)
    sensor_data,                \* sid -> sequence of <<ts, angle>>
    timestamps,                 \* sorted(time_frames.keys())
    sensor_order,               \* sorted(sensor_data.keys())
    spine_curves,               \* the sampled frames
    result,                     \* <<>> for None, <<record>> otherwise
    exc,                        \* the exception raised, "none" if none
    args,                       \* the arguments of a helper called on its own
    out,                        \* what it returned: <<>> before, <<value>> after
    requests,                   \* the POST requests submitted to the server
    hpc,                        \* each request's position in do_POST
    idx,                        \* each request's index in its loop over parts
    responses                   \* what was sent back to each request

\* The state of a helper called on its own; load_and_analyze_csv leaves it.
helper == <<args, out>>

\* The state of the HTTP server; load_and_analyze_csv leaves it.
server == <<requests, hpc, idx, responses>>

\* No server running.
ServerIdle ==
    /\ requests = <<>>
    /\ hpc = <<>>
    /\ idx = <<>>
    /\ responses = <<>>

vars == <<file, pc, loaded, rows, diag, i, reading_cycles, current_cycle,
          current_cycle_start_time, time_frames, sensor_data, timestamps,
          sensor_order, spine_curves, result, exc, helper, server>>

-----------------------------------------------------------------------------
(* Program constants *)

FIVE_MINUTES_MS == 300000
CYCLE_WINDOW_MS == 100
MaxFrames == 500
scale == 8192
deadzoneRaw == (3 * scale) \div 100
gimbalRaw == (98 * scale) \div 100
spacing_cm == 9

(* Bounds of the model *)

MaxMid == 2
MaxMult == 2

None == <<>>
Some(v) == <<v>>

-----------------------------------------------------------------------------
(* Integer helpers *)

Abs(x) == IF x < 0 THEN -x ELSE x

SetMax(S) == CHOOSE m \in S : \A y \in S : y <= m
SetMin(S) == CHOOSE m \in S : \A y \in S : m <= y

Range(s) == {s[k] : k \in 1..Len(s)}

RECURSIVE SumRange(_, _, _)
SumRange(s, lo, hi) ==
    IF lo > hi THEN 0
    ELSE IF lo = hi THEN s[lo]
    ELSE LET mid == (lo + hi) \div 2
         IN  SumRange(s, lo, mid) + SumRange(s, mid + 1, hi)

\* sum(s)
SeqSum(s) == SumRange(s, 1, Len(s))

RECURSIVE IsqrtBetween(_, _, _)
IsqrtBetween(n, lo, hi) ==
    IF lo >= hi THEN lo
    ELSE LET mid == (lo + hi + 1) \div 2
         IN  IF mid * mid <= n THEN IsqrtBetween(n, mid, hi)
             ELSE IsqrtBetween(n, lo, mid - 1)

\* math.sqrt, rounded down to an integer (the search stays below 2^31)
Isqrt(n) == IsqrtBetween(n, 0, IF n < 46340 THEN n ELSE 46340)

-----------------------------------------------------------------------------
(* compute_angle_from_accel *)

\* 1000 * tan(k degrees) for k = 0 .. 89, rounded.
Tan1000 ==
    <<
       0, 17, 35, 52, 70, 87, 105, 123, 141, 158,
       176, 194, 213, 231, 249, 268, 287, 306, 325, 344,
       364, 384, 404, 424, 445, 466, 488, 510, 532, 554,
       577, 601, 625, 649, 675, 700, 727, 754, 781, 810,
       839, 869, 900, 933, 966, 1000, 1036, 1072, 1111, 1150,
       1192, 1235, 1280, 1327, 1376, 1428, 1483, 1540, 1600, 1664,
       1732, 1804, 1881, 1963, 2050, 2145, 2246, 2356, 2475, 2605,
       2747, 2904, 3078, 3271, 3487, 3732, 4011, 4331, 4705, 5145,
       5671, 6314, 7115, 8144, 9514, 11430, 14301, 19081, 28636, 57290 >>

\* math.atan2(n, d) * 180 / pi for n >= 0, d >= 0, in whole degrees, rounded
\* up: the least k with n / d <= tan(k degrees).  0 only for n = 0, 45 for
\* n = d, never above 90.
Atan2Deg(n, d) ==
    IF n = 0 THEN 0
    ELSE IF n = d THEN 45
    ELSE Cardinality({k \in 1..Len(Tan1000) : 1000 * n > d * Tan1000[k]})

\* The angle with 180 + angle, not 180 - angle, for a negative x.
compute_angle_overturned(ax, ay, az) ==
    LET xRaw  == IF ax # 0 THEN ax ELSE 10
        yUsed == IF Abs(ay) < deadzoneRaw THEN 0 ELSE ay
        zUsed == IF Abs(az) < deadzoneRaw THEN 0 ELSE az
        a0    == Atan2Deg(Isqrt(yUsed * yUsed + zUsed * zUsed), Abs(xRaw))
        a1    == IF xRaw < 0 THEN 180 + a0 ELSE a0
        a2    == IF az < 0 THEN -a1 ELSE a1
    IN  IF /\ Abs(xRaw) > gimbalRaw
           /\ Abs(yUsed) < deadzoneRaw
           /\ Abs(zUsed) < deadzoneRaw
        THEN (IF xRaw < 0 THEN 180 ELSE 0)
        ELSE a2

\* The angle with x = 0 left as it is, not replaced by 10.
compute_angle_zero_x(ax, ay, az) ==
    LET xRaw  == ax
        yUsed == IF Abs(ay) < deadzoneRaw THEN 0 ELSE ay
        zUsed == IF Abs(az) < deadzoneRaw THEN 0 ELSE az
        a0    == Atan2Deg(Isqrt(yUsed * yUsed + zUsed * zUsed), Abs(xRaw))
        a1    == IF xRaw < 0 THEN 180 - a0 ELSE a0
        a2    == IF az < 0 THEN -a1 ELSE a1
    IN  IF /\ Abs(xRaw) > gimbalRaw
           /\ Abs(yUsed) < deadzoneRaw
           /\ Abs(zUsed) < deadzoneRaw
        THEN (IF xRaw < 0 THEN 180 ELSE 0)
        ELSE a2

\* The angle taken from the raw y and z, no deadzone applied.
compute_angle_raw(ax, ay, az) ==
    LET xRaw  == IF ax # 0 THEN ax ELSE 10
        a0    == Atan2Deg(Isqrt(ay * ay + az * az), Abs(xRaw))
        a1    == IF xRaw < 0 THEN 180 - a0 ELSE a0
        a2    == IF az < 0 THEN -a1 ELSE a1
    IN  IF /\ Abs(xRaw) > gimbalRaw
           /\ Abs(ay) < deadzoneRaw
           /\ Abs(az) < deadzoneRaw
        THEN (IF xRaw < 0 THEN 180 ELSE 0)
        ELSE a2

compute_angle_from_accel(ax, ay, az) ==
    LET xRaw  == IF ax # 0 THEN ax ELSE 10
        yUsed == IF Abs(ay) < deadzoneRaw THEN 0 ELSE ay
        zUsed == IF Abs(az) < deadzoneRaw THEN 0 ELSE az
        a0    == Atan2Deg(Isqrt(yUsed * yUsed + zUsed * zUsed), Abs(xRaw))
        a1    == IF xRaw < 0 THEN 180 - a0 ELSE a0
        a2    == IF az < 0 THEN -a1 ELSE a1
    IN  IF /\ Abs(xRaw) > gimbalRaw
           /\ Abs(yUsed) < deadzoneRaw
           /\ Abs(zUsed) < deadzoneRaw
        THEN (IF xRaw < 0 THEN 180 ELSE 0)
        ELSE a2

-----------------------------------------------------------------------------
(* Rows: <<ts, sid, ax, ay, az>>, the tuples load_and_analyze_csv appends *)

Row(ts, sid, acc) == <<ts, sid, acc[1], acc[2], acc[3]>>

\* Accelerometer triples of the inputs: upright (0 degrees) and bent
\* (y = x, 45 degrees).
AccFlat == <<8192, 0, 0>>
AccBent == <<3000, 3000, 0>>
AccelSet == {AccFlat, AccBent}

Sids == {0, 1}

\* Timestamps of the free rows: around the start cutoff (299999, 300000),
\* one window later (300100, 300101) and just past the end cutoff of a
\* session ending at 600101 (300102).
MidTs == {FIVE_MINUTES_MS - 1, FIVE_MINUTES_MS,
          FIVE_MINUTES_MS + CYCLE_WINDOW_MS,
          FIVE_MINUTES_MS + CYCLE_WINDOW_MS + 1,
          FIVE_MINUTES_MS + CYCLE_WINDOW_MS + 2}

MidRows == {Row(ts, sid, acc) : ts \in MidTs, sid \in Sids, acc \in AccelSet}

SeqsUpTo(S, n) == UNION {[1..k -> S] : k \in 0..n}

HeadRows == {<<>>, <<Row(0, 0, AccFlat)>>}
TailRows == {<<>>,
             <<Row(2 * FIVE_MINUTES_MS + CYCLE_WINDOW_MS + 1, 0, AccFlat)>>}

\* Logs made of an optional first row at 0, up to MaxMid free rows and an
\* optional last row at 600101.
GeneralFiles ==
    {h \o m \o t : h \in HeadRows, m \in SeqsUpTo(MidRows, MaxMid),
                   t \in TailRows}

\* The samples of the module docstring (lines 12-17), between two rows that
\* put them exactly on the trimming cutoffs.
ExampleSamples(accs) ==
    << Row(505, 0, accs[1]), Row(509, 2, accs[2]), Row(513, 5, accs[3]),
       Row(529, 7, accs[4]), Row(1105, 0, accs[5]) >>

ExampleFiles ==
    {<<Row(505 - FIVE_MINUTES_MS, 0, AccFlat)>> \o ExampleSamples(accs)
        \o <<Row(1105 + FIVE_MINUTES_MS, 0, AccFlat)>> :
     accs \in [1..5 -> AccelSet]}

\* A session of exactly 20 minutes and a session of 8 minutes.
TwentyMinuteFiles ==
    {<<Row(0, 0, AccFlat), Row(FIVE_MINUTES_MS - 1, 0, a),
       Row(FIVE_MINUTES_MS, 0, a), Row(3 * FIVE_MINUTES_MS, 1, b),
       Row(3 * FIVE_MINUTES_MS + 1, 1, b),
       Row(4 * FIVE_MINUTES_MS, 0, AccFlat)>> : a, b \in AccelSet}

EightMinuteFiles ==
    {<<Row(0, 0, a), Row(240000, 1, b), Row(480000, 0, a)>> :
     a, b \in AccelSet}

-----------------------------------------------------------------------------
(* The CSV file.  A record of the file is what csv.DictReader yields: a    *)
(* mapping from column name to field text, a text being a sequence of      *)
(* characters.  A column that is missing from the header (KeyError) and a  *)
(* field missing from a short record (None, TypeError in int) are both a   *)
(* column name outside the DOMAIN of the record.                           *)

Columns == <<"Timestamp_ms", "Sensor_ID", "Accel_X", "Accel_Y", "Accel_Z">>

DigitChars == <<"0", "1", "2", "3", "4", "5", "6", "7", "8", "9">>

\* str(n), as the logger writes an integer.
RECURSIVE DigitsOf(_)
DigitsOf(n) ==
    IF n < 10 THEN <<DigitChars[n + 1]>>
    ELSE Append(DigitsOf(n \div 10), DigitChars[(n % 10) + 1])

ToText(n) == IF n < 0 THEN <<"-">> \o DigitsOf(-n) ELSE DigitsOf(n)

CsvRow(row) == [c \in Range(Columns) |->
                   ToText(row[CHOOSE k \in 1..Len(Columns) : Columns[k] = c])]

CsvFile(rs) == [k \in 1..Len(rs) |-> CsvRow(rs[k])]

\* int(text): blanks around the number are ignored, one sign is allowed,
\* the digits may be grouped by single underscores; anything else raises
\* ValueError (None here).
IsBlank(c) == c \in {" ", "\t"}

IsDigit(c) == \E d \in 1..Len(DigitChars) : DigitChars[d] = c

DigitValue(c) == (CHOOSE d \in 1..Len(DigitChars) : DigitChars[d] = c) - 1

StripBlanks(t) ==
    LET inked == {k \in 1..Len(t) : ~IsBlank(t[k])}
    IN  IF inked = {} THEN <<>> ELSE SubSeq(t, SetMin(inked), SetMax(inked))

RECURSIVE DecimalValue(_)
DecimalValue(ds) ==
    IF ds = <<>> THEN 0
    ELSE 10 * DecimalValue(SubSeq(ds, 1, Len(ds) - 1)) + DigitValue(ds[Len(ds)])

ParseInt(t) ==
    LET u      == StripBlanks(t)
        signed == u # <<>> /\ u[1] \in {"+", "-"}
        body   == IF signed THEN Tail(u) ELSE u
        ds     == SelectSeq(body, IsDigit)
        wellFormed ==
            /\ body # <<>>
            /\ \A k \in 1..Len(body) : IsDigit(body[k]) \/ body[k] = "_"
            /\ IsDigit(body[1]) /\ IsDigit(body[Len(body)])
            /\ \A k \in 1..(Len(body) - 1) :
                  ~(body[k] = "_" /\ body[k + 1] = "_")
    IN  IF ~wellFormed THEN None
        ELSE IF signed /\ u[1] = "-" THEN Some(-DecimalValue(ds))
        ELSE Some(DecimalValue(ds))

\* Lines 101-107: the five conversions of one record; any failure drops it.
ParseRow(rec) ==
    IF \A k \in 1..Len(Columns) :
          Columns[k] \in DOMAIN rec /\ ParseInt(rec[Columns[k]]) # None
    THEN Some([k \in 1..Len(Columns) |-> ParseInt(rec[Columns[k]])[1]])
    ELSE None

\* A reader that gives up at the first record it cannot convert.
ParseRowsUntilBad(f) ==
    LET bad == {k \in 1..Len(f) : ParseRow(f[k]) = None}
        n   == IF bad = {} THEN Len(f) ELSE SetMin(bad) - 1
    IN  [k \in 1..n |-> ParseRow(f[k])[1]]

\* Lines 99-109: the rows appended, in file order.
ParseRows(f) ==
    LET parsed == [k \in 1..Len(f) |-> ParseRow(f[k])]
        valid  == SelectSeq(parsed, LAMBDA p : p # None)
    IN  [k \in 1..Len(valid) |-> valid[k][1]]

\* Records the reader has to cope with, at a timestamp the trimming keeps:
\* a short record, a fraction, a word, an empty field, a file whose header
\* lacks the timestamp column; and two records int() accepts although they
\* are not written the way str() writes them (a blank after the comma, a
\* plus sign).
WithField(rec, c, t) == [rec EXCEPT ![c] = t]

Without(rec, c) == [d \in (DOMAIN rec) \ {c} |-> rec[d]]

OddBase == CsvRow(Row(FIVE_MINUTES_MS + 20, 1, AccBent))

BadRecords ==
    { Without(OddBase, "Accel_Z"),
      WithField(OddBase, "Timestamp_ms", ToText(FIVE_MINUTES_MS + 20) \o <<".", "5">>),
      WithField(OddBase, "Sensor_ID", <<"a", "b">>),
      WithField(OddBase, "Accel_Y", <<>>),
      Without(OddBase, "Timestamp_ms") }

SpacedRecord == WithField(OddBase, "Sensor_ID", <<" ", "1">>)
PlusRecord == WithField(OddBase, "Accel_Z", <<"+", "0">>)

OddRecords == BadRecords \cup {SpacedRecord, PlusRecord}

PlainRows == {Row(FIVE_MINUTES_MS, 0, AccBent),
              Row(FIVE_MINUTES_MS + 50, 1, AccFlat)}

\* Two records, odd or plain, between the first and the last row of a
\* session.
MalformedFiles ==
    {CsvFile(<<Row(0, 0, AccFlat)>>) \o m
        \o CsvFile(<<Row(2 * FIVE_MINUTES_MS + 50, 0, AccFlat)>>) :
     m \in [1..2 -> OddRecords \cup {CsvRow(r) : r \in PlainRows}]}

\* Two cycles of the sensors 0 .. k-1, read 1 ms apart; in the second cycle
\* one sensor is bent.  With 11 sensors the ids reach two digits.
SectionCounts == {2, 3, 5, 11}

SectionFiles ==
    UNION {{<<Row(0, 0, AccFlat)>>
             \o [j \in 1..(2 * k) |->
                    Row(FIVE_MINUTES_MS + 200 * ((j - 1) \div k) + ((j - 1) % k),
                        (j - 1) % k,
                        IF j > k /\ (j - 1) % k = b THEN AccBent ELSE AccFlat)]
             \o <<Row(2 * FIVE_MINUTES_MS + 300, 0, AccFlat)>> :
            b \in 0..(k - 1)} : k \in SectionCounts}

\* Accelerometer triples of a sensor at rest, all of angle 0: upright,
\* upright with noise inside the deadzone (z below zero), a weaker upright
\* reading, and no x component with noise inside the deadzone.
RestAccs == <<AccFlat, <<8192, 100, -100>>, <<4000, 0, 0>>, <<0, 100, 100>>>>

\* A log of 10 cycles, one second apart, of 8 sensors read 4 ms apart, every
\* sample at rest, between a first and a last row that the trimming needs.
RestFiles ==
    {<<Row(0, 0, AccFlat)>>
       \o [j \in 1..(8 * 10) |->
              LET c == (j - 1) \div 8
                  sensor == (j - 1) % 8
              IN  Row(FIVE_MINUTES_MS + 1000 * c + 4 * sensor, sensor,
                      RestAccs[((c + sensor + p) % Len(RestAccs)) + 1])]
       \o <<Row(2 * FIVE_MINUTES_MS + 1000 * 10, 0, AccFlat)>> :
     p \in 0..2}

\* Accelerometer triples of three cycles of a sensor that leans forward and
\* returns (0, 45, 0 degrees), of one that leans back and then forward
\* (0, -45, 45), and of one that lies down from leaning (45, 90, 45).
RomAccs == <<<<AccFlat, AccBent, AccFlat>>,
             <<AccFlat, <<3000, 0, -3000>>, AccBent>>,
             <<AccBent, <<0, 3000, 0>>, AccBent>>>>

\* A log of 3 cycles of 3 sensors, each sensor moving in its own way,
\* between a first and a last row that the trimming needs.
RomFiles ==
    {<<Row(0, 0, AccFlat)>>
       \o [j \in 1..9 |->
              LET c == (j - 1) \div 3
                  sensor == (j - 1) % 3
              IN  Row(FIVE_MINUTES_MS + 200 * c + sensor, sensor,
                      RomAccs[((sensor + p) % 3) + 1][c + 1])]
       \o <<Row(2 * FIVE_MINUTES_MS + 600, 0, AccFlat)>> :
     p \in 0..2}

Files ==
    {CsvFile(f) : f \in GeneralFiles \cup ExampleFiles \cup TwentyMinuteFiles
                            \cup EightMinuteFiles \cup SectionFiles
                            \cup RestFiles \cup RomFiles}
        \cup MalformedFiles

-----------------------------------------------------------------------------
(* The open cycle, a dict in insertion order: entries <<sid, ts, angle>> *)

CycleHas(c, sid) == \E k \in 1..Len(c) : c[k][1] = sid

\* current_cycle[sid] = (ts, angle): replaces the value of an existing key
\* in place, appends a new key.
CycleSet(c, sid, ts, angle) ==
    IF CycleHas(c, sid)
    THEN [k \in 1..Len(c) |-> IF c[k][1] = sid THEN <<sid, ts, angle>>
                              ELSE c[k]]
    ELSE Append(c, <<sid, ts, angle>>)

CycleSids(c) == {c[k][1] : k \in 1..Len(c)}

\* Line 163 with >= for >.
StartsNewCycleAtWindow(start, c, ts, sid) ==
    \/ start = None
    \/ CycleHas(c, sid)
    \/ ts - start[1] >= CYCLE_WINDOW_MS

\* Lines 161-163 without the repeated-sensor test of line 162.
StartsNewCycleNoRepeat(start, c, ts, sid) ==
    \/ start = None
    \/ ts - start[1] > CYCLE_WINDOW_MS

\* The condition of line 161-163.
StartsNewCycle(start, c, ts, sid) ==
    \/ start = None
    \/ CycleHas(c, sid)
    \/ ts - start[1] > CYCLE_WINDOW_MS

-----------------------------------------------------------------------------
(* Trimming, lines 116-139 *)

Timestamps(rs) == {rs[k][1] : k \in 1..Len(rs)}

\* Line 132 with strict comparisons.
KeptByTrimStrict(rs, row) ==
    LET start_cutoff == SetMin(Timestamps(rs)) + FIVE_MINUTES_MS
        end_cutoff   == SetMax(Timestamps(rs)) - FIVE_MINUTES_MS
    IN  start_cutoff < row[1] /\ row[1] < end_cutoff

KeptByTrim(rs, row) ==
    LET start_cutoff == SetMin(Timestamps(rs)) + FIVE_MINUTES_MS
        end_cutoff   == SetMax(Timestamps(rs)) - FIVE_MINUTES_MS
    IN  start_cutoff <= row[1] /\ row[1] <= end_cutoff

TrimRows(rs) == SelectSeq(rs, LAMBDA row : KeptByTrim(rs, row))

\* Lines 141-142 left out: the analysis goes on with no row.
AfterTrimNoCheck(rs) == "cycles"

\* Lines 141-142: if not rows: return None
AfterTrim(rs) == IF rs = <<>> THEN "done" ELSE "cycles"

\* Lines 179-180 left out: the open cycle is not emitted.
FlushCycleDropped(cycles, start, c) == cycles

\* The last cycle emitted under the average of its members' timestamps.
FlushCycleAverageKey(cycles, start, c) ==
    IF c # <<>>
    THEN Append(cycles, <<SeqSum([j \in 1..Len(c) |-> c[j][2]]) \div Len(c), c>>)
    ELSE cycles

\* Lines 179-180: if current_cycle: reading_cycles.append(...)
FlushCycle(cycles, start, c) ==
    IF c # <<>> THEN Append(cycles, <<start[1], c>>) ELSE cycles

-----------------------------------------------------------------------------
(* Quotients: a / b in floating point is kept as the pair <<a, b>> *)

Quot(a, b) == <<a, b>>

\* ts / 1000.0
Seconds(ts) == Quot(ts, 1000)

-----------------------------------------------------------------------------
(* build_spine_from_angles, lines 55-89.  Coordinates are integers in      *)
(* hundredths of a centimetre; math.sin and math.cos of whole degrees are  *)
(* taken from Bhaskara's rational approximation, times 100, rounded down.  *)

SinHalfTurn(x) == (400 * x * (180 - x)) \div (40500 - x * (180 - x))

Sin100(a) ==
    LET m == a % 360
    IN  IF m <= 180 THEN SinHalfTurn(m) ELSE -SinHalfTurn(m - 180)

Cos100(a) == Sin100(a + 90)

Reverse(s) == [k \in 1..Len(s) |-> s[Len(s) + 1 - k]]

\* The loop of lines 72-78, from index k (1-based) down to 1.
RECURSIVE Integrate(_, _, _, _)
Integrate(angles_centered, k, curr, locs) ==
    IF k < 1 THEN locs
    ELSE LET dx == spacing_cm * Sin100(angles_centered[k])
             dy == spacing_cm * Cos100(angles_centered[k])
             nxt == <<curr[1] + dx, curr[2] + dy>>
         IN  Integrate(angles_centered, k - 1, nxt, Append(locs, nxt))

\* The curve with the loop of lines 72-78 stopping one index early.
build_spine_short(angles) ==
    IF angles = <<>> THEN <<>>
    ELSE LET n == Len(angles)
             angles_rev == Reverse(angles)
             start == <<0, -((n * spacing_cm * 100) \div 2)>>
             locs == Reverse(Integrate(angles_rev, n - 1, start, <<>>))
             m == Len(locs)
             avg_x == IF m > 0 THEN SeqSum([k \in 1..m |-> locs[k][1]]) \div m ELSE 0
             avg_y == IF m > 0 THEN SeqSum([k \in 1..m |-> locs[k][2]]) \div m ELSE 0
         IN  [k \in 1..m |-> <<locs[k][1] - avg_x, locs[k][2] - avg_y>>]

\* The curve with only the x-coordinates centred.
build_spine_x_centered(angles) ==
    IF angles = <<>> THEN <<>>
    ELSE LET n == Len(angles)
             angles_rev == Reverse(angles)
             start == <<0, -((n * spacing_cm * 100) \div 2)>>
             locs == Reverse(Integrate(angles_rev, n, start, <<>>))
             avg_x == SeqSum([k \in 1..n |-> locs[k][1]]) \div n
         IN  [k \in 1..n |-> <<locs[k][1] - avg_x, locs[k][2]>>]

build_spine_from_angles(angles) ==
    IF angles = <<>> THEN <<>>
    ELSE LET n == Len(angles)
             angles_rev == Reverse(angles)
             start == <<0, -((n * spacing_cm * 100) \div 2)>>
             locs == Reverse(Integrate(angles_rev, n, start, <<>>))
             avg_x == SeqSum([k \in 1..n |-> locs[k][1]]) \div n
             avg_y == SeqSum([k \in 1..n |-> locs[k][2]]) \div n
         IN  [k \in 1..n |-> <<locs[k][1] - avg_x, locs[k][2] - avg_y>>]

\* Lines 261-269 for one curve: the largest distance of an interior point
\* from the chord first-last, 0 for coincident end points.
PointDist(first, last, point) ==
    IF first # last
    THEN Abs((last[2] - first[2]) * point[1] - (last[1] - first[1]) * point[2]
             + last[1] * first[2] - last[2] * first[1])
         \div Isqrt((last[2] - first[2]) * (last[2] - first[2])
                    + (last[1] - first[1]) * (last[1] - first[1]))
    ELSE 0

CurveCurvature(points) ==
    IF Len(points) >= 2
    THEN LET first == points[1]
             last  == points[Len(points)]
         IN  SetMax({0} \cup {PointDist(first, last, points[k]) :
                              k \in 2..(Len(points) - 1)})
    ELSE 0

MaxCurvature(curves) ==
    SetMax({0} \cup {CurveCurvature(curves[k].points) : k \in 1..Len(curves)})

-----------------------------------------------------------------------------
(* Frames and per-sensor series, lines 184-219 *)

CycleGet(c, sid) == c[CHOOSE k \in 1..Len(c) : c[k][1] = sid]

\* {sid: angle for sid, (ts, angle) in cycle_data.items()}
CycleAngles(c) == [sid \in CycleSids(c) |-> CycleGet(c, sid)[3]]

\* The cycle indices ordered by cycle time, cycles of equal time in
\* emission order.
ByTime(cycles) ==
    SortSeq([k \in 1..Len(cycles) |-> k],
            LAMBDA a, b : \/ cycles[a][1] < cycles[b][1]
                          \/ cycles[a][1] = cycles[b][1] /\ a < b)

\* Lines 185-187, time_frames[cycle_time] = ...: of the cycles with one
\* start time the last emitted one stays in the table.  The indices of the
\* cycles that stay, by ascending cycle time.
\* The first, not the last, cycle of each start time.
WinnersFirst(cycles) ==
    LET ord == ByTime(cycles)
        n   == Len(cycles)
        pos == SelectSeq([p \in 1..n |-> p],
                         LAMBDA p : \/ p = 1
                                    \/ cycles[ord[p]][1] # cycles[ord[p - 1]][1])
    IN  [j \in 1..Len(pos) |-> ord[pos[j]]]

Winners(cycles) ==
    LET ord == ByTime(cycles)
        n   == Len(cycles)
        pos == SelectSeq([p \in 1..n |-> p],
                         LAMBDA p : \/ p = n
                                    \/ cycles[ord[p]][1] # cycles[ord[p + 1]][1])
    IN  [j \in 1..Len(pos) |-> ord[pos[j]]]

\* Line 201: sorted(time_frames.keys())
SortedKeys(cycles) ==
    LET w == Winners(cycles)
    IN  [j \in 1..Len(w) |-> cycles[w[j]][1]]

RECURSIVE Find(_, _, _, _)
\* The index of t in the ascending sequence keys, between lo and hi.
Find(keys, t, lo, hi) ==
    IF lo >= hi THEN lo
    ELSE LET mid == (lo + hi) \div 2
         IN  IF keys[mid] < t THEN Find(keys, t, mid + 1, hi)
             ELSE Find(keys, t, lo, mid)

TimeFramesOf(cycles) ==
    LET w    == Winners(cycles)
        keys == [j \in 1..Len(w) |-> cycles[w[j]][1]]
    IN  [t \in Range(keys) |->
            CycleAngles(cycles[w[Find(keys, t, 1, Len(keys))]][2])]

\* The series read back from the frame table, one cycle per cycle time.
SensorDataOfFrames(cycles) ==
    LET w == Winners(cycles)
    IN  [sid \in UNION {CycleSids(cycles[k][2]) : k \in 1..Len(cycles)} |->
            LET ks == SelectSeq(w, LAMBDA k : CycleHas(cycles[k][2], sid))
            IN  [j \in 1..Len(ks) |->
                    LET e == CycleGet(cycles[ks[j]][2], sid)
                    IN  [time |-> Seconds(e[2]), angle |-> e[3],
                         ts_ms |-> e[2]]]]

\* Lines 190-195: each sensor's readings, in cycle order.
SensorDataOf(cycles) ==
    [sid \in UNION {CycleSids(cycles[k][2]) : k \in 1..Len(cycles)} |->
        LET ks == SelectSeq([k \in 1..Len(cycles) |-> k],
                            LAMBDA k : CycleHas(cycles[k][2], sid))
        IN  [j \in 1..Len(ks) |->
                LET e == CycleGet(cycles[ks[j]][2], sid)
                IN  [time |-> Seconds(e[2]), angle |-> e[3], ts_ms |-> e[2]]]]

\* The list left in the order of the dict keys.
Unsorted(s) == s

\* sorted(...)
Sorted(s) == SortSeq(s, LAMBDA a, b : a < b)

SetToSeq(S) ==
    LET n == Cardinality(S)
    IN  [k \in 1..n |-> CHOOSE x \in S : Cardinality({y \in S : y < x}) = k - 1]

\* The stride rounded up, so that no more than MaxFrames are selected.
StrideRoundedUp(n) ==
    IF n = 0 THEN 1 ELSE (n + MaxFrames - 1) \div MaxFrames

\* sensor_data.keys(): the sensor ids in the order lines 190-195 first meet
\* them, cycle after cycle and, within a cycle, in the order of its items.
SensorKeys(cycles) ==
    LET sids     == UNION {CycleSids(cycles[k][2]) : k \in 1..Len(cycles)}
        first    == [s \in sids |->
                        SetMin({k \in 1..Len(cycles) : CycleHas(cycles[k][2], s)})]
        place    == [s \in sids |->
                        LET c == cycles[first[s]][2]
                        IN  CHOOSE j \in 1..Len(c) : c[j][1] = s]
    IN  SortSeq(SetToSeq(sids),
                LAMBDA a, b : \/ first[a] < first[b]
                              \/ first[a] = first[b] /\ place[a] < place[b])

\* s[::stride]
Stride(n) == IF n \div MaxFrames > 1 THEN n \div MaxFrames ELSE 1

Slice(s, stride) ==
    [k \in 1..((Len(s) + stride - 1) \div stride) |-> s[(k - 1) * stride + 1]]

SampledTimestamps(ts) == Slice(ts, Stride(Len(ts)))

\* time_frames[ts].get(sid, 0) for sid in sensor_order
FrameAngles(frame, order) ==
    [k \in 1..Len(order) |->
        IF order[k] \in DOMAIN frame THEN frame[order[k]] ELSE 0]

AnyNonZero(angles) == \E k \in 1..Len(angles) : angles[k] # 0

\* Every candidate frame appended.
EmitsFrameAlways(angles) == TRUE

\* Which candidate frames are appended (line 213).
EmitsFrame(angles) == AnyNonZero(angles)

SpineCurvesOf(tf, sampled, order) ==
    LET cand == [k \in 1..Len(sampled) |->
                    LET fa == FrameAngles(tf[sampled[k]], order)
                    IN  [time |-> Seconds(sampled[k]),
                         points |-> build_spine_from_angles(fa),
                         angles |-> fa]]
    IN  SelectSeq(cand, LAMBDA f : EmitsFrame(f.angles))

-----------------------------------------------------------------------------
(* Metrics, lines 223-289 *)

\* max(angles) - min(angles) if angles else 0
Rom(angles) ==
    IF angles # <<>> THEN SetMax(Range(angles)) - SetMin(Range(angles)) ELSE 0

AnglesOf(data) == [k \in 1..Len(data) |-> data[k].angle]

RECURSIVE Pool(_, _)
\* [a for sid in section for a in angles of sid]
Pool(sd, section) ==
    IF section = <<>> THEN <<>>
    ELSE AnglesOf(sd[Head(section)]) \o Pool(sd, Tail(section))

\* The angles of the sampled frames instead of the per-sensor series.
MetricAnglesOfFrames(sd, curves, order) ==
    [j \in 1..(Len(curves) * Len(order)) |->
        curves[((j - 1) \div Len(order)) + 1].angles[((j - 1) % Len(order)) + 1]]

\* The series the metrics are computed from (line 236-238).
MetricAngles(sd, curves, order) == Pool(sd, order)

\* Lines 245-248: the three sections of the sensor order.
upper(order) == SubSeq(order, 1, Len(order) \div 3)

\* The middle section ending at 2 * (n // 3).
middleOfThirds(order) ==
    SubSeq(order, Len(order) \div 3 + 1, 2 * (Len(order) \div 3))

middle(order) ==
    SubSeq(order, Len(order) \div 3 + 1, (2 * Len(order)) \div 3)

lower(order) == SubSeq(order, (2 * Len(order)) \div 3 + 1, Len(order))

\* The quotient taken without looking at the duration.
movement_score_unguarded(total_rom, duration_ms) ==
    Quot(total_rom * 1000, duration_ms)

\* total_rom / duration if duration > 0 else 0, the duration being
\* duration_ms / 1000.
movement_score(total_rom, duration_ms) ==
    IF duration_ms > 0 THEN Quot(total_rom * 1000, duration_ms) ELSE Quot(0, 1)

AvgAngles(sd, order) ==
    [k \in 1..Len(order) |->
        LET a == AnglesOf(sd[order[k]])
        IN  IF a # <<>> THEN SeqSum(a) \div Len(a) ELSE 0]

Metrics(rs, ts, order, sd, curves) ==
    LET all_angles   == MetricAngles(sd, curves, order)
        duration_ms  == ts[Len(ts)] - ts[1]
        total_rom    == Rom(all_angles)
        n            == Len(order)
    IN  [sensors        |-> Cardinality(DOMAIN sd),
         samples        |-> Len(rs),
         duration       |-> Seconds(duration_ms),
         total_rom      |-> total_rom,
         upper_rom      |-> Rom(Pool(sd, upper(order))),
         middle_rom     |-> Rom(Pool(sd, middle(order))),
         lower_rom      |-> Rom(Pool(sd, lower(order))),
         avg_angle      |-> IF all_angles # <<>>
                            THEN Quot(SeqSum(all_angles), Len(all_angles))
                            ELSE Quot(0, 1),
         movement_score |-> movement_score(total_rom, duration_ms),
         max_curvature  |-> MaxCurvature(curves),
         sensor_roms    |-> [s \in {ToString(sid) : sid \in DOMAIN sd} |->
                                 Rom(AnglesOf(sd[CHOOSE sid \in DOMAIN sd :
                                                     ToString(sid) = s]))],
         spine_curves   |-> curves,
         avg_spine      |-> build_spine_from_angles(AvgAngles(sd, order)),
         sensor_order   |-> [k \in 1..n |-> ToString(order[k])]]

-----------------------------------------------------------------------------
(* Actions *)

Init ==
    /\ args = <<>>
    /\ out = None
    /\ ServerIdle
    /\ file \in Files
    /\ pc = "load"
    /\ loaded = <<>>
    /\ rows = <<>>
    /\ diag = "none"
    /\ i = 1
    /\ reading_cycles = <<>>
    /\ current_cycle = <<>>
    /\ current_cycle_start_time = None
    /\ time_frames = <<>>
    /\ sensor_data = <<>>
    /\ timestamps = <<>>
    /\ sensor_order = <<>>
    /\ spine_curves = <<>>
    /\ result = None
    /\ exc = "none"

\* Lines 97-112: read the rows, dropping the records that do not convert;
\* no row, no result.
Load ==
    /\ pc = "load"
    /\ loaded' = ParseRows(file)
    /\ rows' = ParseRows(file)
    /\ pc' = IF rows' = <<>> THEN "done" ELSE "trim"
    /\ UNCHANGED <<helper, server, file, diag, i, reading_cycles, current_cycle,
                   current_cycle_start_time, time_frames, sensor_data,
                   timestamps, sensor_order, spine_curves, result, exc>>

\* Lines 116-142: drop the first and last five minutes; no row, no result.
Trim ==
    /\ pc = "trim"
    /\ rows' = TrimRows(rows)
    /\ diag' = IF Len(rows) - Len(rows') > 0 THEN "removed" ELSE "warning"
    /\ pc' = AfterTrim(rows')
    /\ UNCHANGED <<helper, server, file, loaded, i, reading_cycles, current_cycle,
                   current_cycle_start_time, time_frames, sensor_data,
                   timestamps, sensor_order, spine_curves, result, exc>>

\* Lines 154-176: one iteration of the loop over rows.  (avg_time of line
\* 168 is computed and never used.)
ProcessSample ==
    /\ pc = "cycles"
    /\ i <= Len(rows)
    /\ LET ts    == rows[i][1]
           sid   == rows[i][2]
           angle == compute_angle_from_accel(rows[i][3], rows[i][4], rows[i][5])
       IN  IF StartsNewCycle(current_cycle_start_time, current_cycle, ts, sid)
           THEN /\ reading_cycles' =
                      IF current_cycle # <<>>
                      THEN Append(reading_cycles,
                                  <<current_cycle_start_time[1], current_cycle>>)
                      ELSE reading_cycles
                /\ current_cycle' = <<<<sid, ts, angle>>>>
                /\ current_cycle_start_time' = Some(ts)
           ELSE /\ current_cycle' = CycleSet(current_cycle, sid, ts, angle)
                /\ UNCHANGED <<reading_cycles, current_cycle_start_time>>
    /\ i' = i + 1
    /\ UNCHANGED <<helper, server, file, pc, loaded, rows, diag, time_frames, sensor_data,
                   timestamps, sensor_order, spine_curves, result, exc>>

\* Lines 178-180: the last cycle.
Flush ==
    /\ pc = "cycles"
    /\ i > Len(rows)
    /\ reading_cycles' =
          FlushCycle(reading_cycles, current_cycle_start_time, current_cycle)
    /\ pc' = "frames"
    /\ UNCHANGED <<helper, server, file, loaded, rows, diag, i, current_cycle,
                   current_cycle_start_time, time_frames, sensor_data,
                   timestamps, sensor_order, spine_curves, result, exc>>

\* Lines 184-219: the frame table, the per-sensor series and the sampled
\* frames.
BuildFrames ==
    /\ pc = "frames"
    /\ time_frames' = TimeFramesOf(reading_cycles)
    /\ sensor_data' = SensorDataOf(reading_cycles)
    /\ timestamps' = SortedKeys(reading_cycles)
    /\ sensor_order' = Sorted(SensorKeys(reading_cycles))
    /\ spine_curves' =
          SpineCurvesOf(time_frames', SampledTimestamps(timestamps'),
                        sensor_order')
    /\ pc' = "metrics"
    /\ UNCHANGED <<helper, server, file, loaded, rows, diag, i, reading_cycles, current_cycle,
                   current_cycle_start_time, result, exc>>

\* Lines 223-289: the metrics and the result; timestamps[-1] of an empty
\* list raises IndexError.
ComputeMetrics ==
    /\ pc = "metrics"
    /\ IF timestamps = <<>>
       THEN /\ exc' = "IndexError"
            /\ result' = None
       ELSE /\ result' = Some(Metrics(rows, timestamps, sensor_order,
                                      sensor_data, spine_curves))
            /\ exc' = "none"
    /\ pc' = "done"
    /\ UNCHANGED <<helper, server, file, loaded, rows, diag, i, reading_cycles, current_cycle,
                   current_cycle_start_time, time_frames, sensor_data,
                   timestamps, sensor_order, spine_curves>>

Next == Load \/ Trim \/ ProcessSample \/ Flush \/ BuildFrames \/ ComputeMetrics

Spec == Init /\ [][Next]_vars

-----------------------------------------------------------------------------
(* Long logs.  A log of n reading cycles of three sensors read 1 ms apart  *)
(* (sensor 0 repeating opens each next cycle), taken up after the loop of  *)
(* lines 154-180 has emitted its n cycles.  Every cycle is straight but    *)
(* not zero (45, 0, 0), except one bent cycle (45, 45, 0) and one all-zero *)
(* cycle.                                                                  *)

LongCounts ==
    {n \in {m * MaxFrames + d : m \in 0..MaxMult,
                                d \in {-1, 0, 1, MaxFrames \div 2}} : n >= 1}

LongAcc(k, sensor, bentAt, zeroAt) ==
    IF k = zeroAt THEN AccFlat
    ELSE IF sensor = 0 THEN AccBent
    ELSE IF sensor = 1 /\ k = bentAt THEN AccBent
    ELSE AccFlat

LongRows(n, bentAt, zeroAt) ==
    [j \in 1..(3 * n) |->
        LET k == ((j - 1) \div 3) + 1
            sensor == (j - 1) % 3
        IN  Row(FIVE_MINUTES_MS + j - 1, sensor,
                LongAcc(k, sensor, bentAt, zeroAt))]

LongFile(n, bentAt, zeroAt) ==
    <<Row(0, 0, AccFlat)>> \o LongRows(n, bentAt, zeroAt)
        \o <<Row(2 * FIVE_MINUTES_MS + 3 * n - 1, 0, AccFlat)>>

Entry(row) ==
    <<row[2], row[1], compute_angle_from_accel(row[3], row[4], row[5])>>

LongCycles(rs) ==
    [k \in 1..(Len(rs) \div 3) |->
        <<rs[3 * k - 2][1],
          <<Entry(rs[3 * k - 2]), Entry(rs[3 * k - 1]), Entry(rs[3 * k])>>>>]

SamplerInit ==
    \E n \in LongCounts : \E bentAt \in {0, 2, n}, zeroAt \in {0, 3} :
        /\ args = <<>>
        /\ out = None
        /\ ServerIdle
        /\ file = CsvFile(LongFile(n, bentAt, zeroAt))
        /\ loaded = LongFile(n, bentAt, zeroAt)
        /\ rows = LongRows(n, bentAt, zeroAt)
        /\ diag = "removed"
        /\ pc = "frames"
        /\ i = Len(rows) + 1
        /\ reading_cycles = LongCycles(rows)
        /\ current_cycle = reading_cycles[Len(reading_cycles)][2]
        /\ current_cycle_start_time = Some(reading_cycles[Len(reading_cycles)][1])
        /\ time_frames = <<>>
        /\ sensor_data = <<>>
        /\ timestamps = <<>>
        /\ sensor_order = <<>>
        /\ spine_curves = <<>>
        /\ result = None
        /\ exc = "none"

SamplerNext == BuildFrames \/ ComputeMetrics

SamplerSpec == SamplerInit /\ [][SamplerNext]_vars

-----------------------------------------------------------------------------
(* Properties *)

PastTrim == pc \in {"cycles", "frames", "metrics", "done"}
PastLoop == pc \in {"frames", "metrics", "done"}

\* The sample the loop takes next.
AtSample == pc = "cycles" /\ i <= Len(rows)

SpanOf(rs) == SetMax(Timestamps(rs)) - SetMin(Timestamps(rs))

\* C1: for every sample (ts, sid) the loop takes, a new cycle is opened (the
\* open one, if non-empty, being emitted under its start time) exactly when
\* no cycle is open, or sid is in the open cycle, or ts - start > 100; in
\* every other case, a gap of exactly 100 included, the sample is added to
\* the open cycle under sid and the start time stays.
C1_CycleRule ==
    [][AtSample =>
        LET ts    == rows[i][1]
            sid   == rows[i][2]
            start == current_cycle_start_time
            opens == \/ start = <<>>
                     \/ \E k \in 1..Len(current_cycle) : current_cycle[k][1] = sid
                     \/ ts - start[1] > 100
        IN  IF opens
            THEN /\ current_cycle_start_time' = <<ts>>
                 /\ Len(current_cycle') = 1
                 /\ current_cycle'[1][1] = sid /\ current_cycle'[1][2] = ts
                 /\ reading_cycles' =
                       IF current_cycle # <<>>
                       THEN Append(reading_cycles, <<start[1], current_cycle>>)
                       ELSE reading_cycles
            ELSE /\ current_cycle_start_time' = start
                 /\ reading_cycles' = reading_cycles
                 /\ Len(current_cycle') = Len(current_cycle) + 1
                 /\ SubSeq(current_cycle', 1, Len(current_cycle)) = current_cycle
                 /\ current_cycle'[Len(current_cycle')][1] = sid
                 /\ current_cycle'[Len(current_cycle')][2] = ts]_vars

\* A sample exactly 100 ms after the cycle start has joined the open cycle.
C1_Witness ==
    /\ pc = "cycles"
    /\ Len(current_cycle) >= 2
    /\ current_cycle[Len(current_cycle)][2] - current_cycle_start_time[1] = 100

\* C2: when the timestamp span of the parsed rows is at most 10 minutes,
\* trimming removes no row, only the warning is printed, and the analysis
\* goes on with all rows and returns a result.
C2_ShortSessionKept ==
    (PastTrim /\ loaded # <<>> /\ SpanOf(loaded) <= 600000) =>
        /\ rows = loaded
        /\ diag = "warning"
        /\ (pc = "done" => result # None)

\* C3: whatever the number of distinct cycle timestamps, at most 500 of
\* them are selected, so spine_curves never holds more than 500 frames.
C3_FrameCap == Len(spine_curves) <= 500

\* C4: in every emitted cycle no sensor id occurs twice and every member's
\* timestamp lies in [start, start + 100], for every row sequence.
C4_CycleWindow ==
    \A k \in 1..Len(reading_cycles) :
        LET start == reading_cycles[k][1]
            c     == reading_cycles[k][2]
        IN  /\ \A a, b \in 1..Len(c) : c[a][1] = c[b][1] => a = b
            /\ \A a \in 1..Len(c) : start <= c[a][2] /\ c[a][2] <= start + 100

\* The indices of the parsed rows outside the first and the last five
\* minutes of the session.
InsideIdx ==
    LET first == SetMin(Timestamps(loaded))
        last  == SetMax(Timestamps(loaded))
    IN  {k \in 1..Len(loaded) :
            first + 300000 <= loaded[k][1] /\ loaded[k][1] <= last - 300000}

\* C5: when the span exceeds 10 minutes the retained rows are exactly the
\* rows with min + 300000 <= ts <= max - 300000, in input order; of a
\* session of exactly 20 minutes exactly the two 5-minute windows are gone.
C5_TrimExact ==
    (PastTrim /\ loaded # <<>> /\ SpanOf(loaded) > 600000) =>
        LET inside == InsideIdx
            first  == SetMin(Timestamps(loaded))
        IN  /\ Len(rows) = Cardinality(inside)
            /\ \A k \in inside :
                  rows[Cardinality({m \in inside : m <= k})] = loaded[k]
            /\ SpanOf(loaded) = 1200000 =>
                  \A k \in 1..Len(loaded) :
                      (\E j \in 1..Len(rows) : rows[j] = loaded[k])
                          <=> (300000 <= loaded[k][1] - first
                               /\ loaded[k][1] - first <= 900000)

\* A long session trimmed on both sides, with rows kept on both cutoffs.
C5_Witness ==
    /\ PastTrim
    /\ loaded # <<>>
    /\ SpanOf(loaded) = 1200000
    /\ Len(rows) = 2
    /\ Len(loaded) = 6

\* C6: the result is None exactly when no row remains after parsing or
\* after trimming; with at least one row left a result is returned and no
\* exception is raised, whatever the number of sensors.
C6_EmptyInput ==
    pc = "done" =>
        /\ exc = "none"
        /\ result = None <=> (loaded = <<>> \/ rows = <<>>)

\* A result for a log of one sensor, whose three sections are not all
\* populated.
C6_Witness ==
    /\ pc = "done"
    /\ result # None
    /\ result[1].sensors = 1
    /\ Len(rows) >= 2

RECURSIVE Flatten(_)
\* The readings of the cycles, in order.
Flatten(cycles) ==
    IF cycles = <<>> THEN <<>> ELSE Head(cycles)[2] \o Flatten(Tail(cycles))

\* C8: after the last sample the open cycle is emitted: the emitted cycles,
\* in order, split the retained rows into consecutive non-empty runs, each
\* row in exactly one cycle, and the readings number `samples`.
C8_NoLostSample ==
    (PastLoop /\ rows # <<>>) =>
        LET all == Flatten(reading_cycles)
        IN  /\ Len(all) = Len(rows)
            /\ \A k \in 1..Len(all) :
                  all[k][1] = rows[k][2] /\ all[k][2] = rows[k][1]
            /\ \A k \in 1..Len(reading_cycles) : reading_cycles[k][2] # <<>>
            /\ pc = "done" => result[1].samples = Len(all)

\* Several cycles, one of them of several readings, the last one flushed
\* at the end of the stream.
C8_Witness ==
    /\ pc = "done"
    /\ Len(reading_cycles) >= 2
    /\ \E k \in 1..Len(reading_cycles) : Len(reading_cycles[k][2]) >= 2
    /\ reading_cycles[Len(reading_cycles)][2] = current_cycle

\* <<ts, sid>> of the docstring's samples.
ExampleKeys == <<<<505, 0>>, <<509, 2>>, <<513, 5>>, <<529, 7>>, <<1105, 0>>>>

\* C9: the samples (505,0),(509,2),(513,5),(529,7),(1105,0) give exactly
\* two cycles, 505 with sensors 0,2,5,7 and 1105 with sensor 0; and a sample
\* whose sensor id is in the open cycle always closes that cycle and is the
\* first member of the next one.
C9_RepeatOpensCycle ==
    [][/\ (AtSample /\ rows[i][2] \in CycleSids(current_cycle)) =>
            /\ reading_cycles' =
                  Append(reading_cycles,
                         <<current_cycle_start_time[1], current_cycle>>)
            /\ Len(current_cycle') = 1
            /\ current_cycle'[1][1] = rows[i][2]
            /\ current_cycle'[1][2] = rows[i][1]
            /\ current_cycle_start_time' = <<rows[i][1]>>
       /\ (pc' = "frames"
           /\ [k \in 1..Len(rows') |-> <<rows'[k][1], rows'[k][2]>>] = ExampleKeys) =>
            /\ Len(reading_cycles') = 2
            /\ reading_cycles'[1][1] = 505
            /\ [k \in 1..Len(reading_cycles'[1][2]) |-> reading_cycles'[1][2][k][1]]
                  = <<0, 2, 5, 7>>
            /\ reading_cycles'[2][1] = 1105
            /\ [k \in 1..Len(reading_cycles'[2][2]) |-> reading_cycles'[2][2][k][1]]
                  = <<0>>]_vars

\* The docstring's samples have been grouped; the repeat of sensor 0 closed
\* the first cycle.
C9_Witness ==
    /\ pc = "frames"
    /\ loaded \in ExampleFiles
    /\ Len(reading_cycles) = 2

\* C10: the samples are consumed in non-decreasing timestamp order even when
\* the rows are not sorted, so the emitted cycles have non-decreasing start
\* times.
C10_CyclesInTimeOrder ==
    \A k \in 1..(Len(reading_cycles) - 1) :
        reading_cycles[k][1] <= reading_cycles[k + 1][1]

-----------------------------------------------------------------------------
(* The metrics recomputed from the emitted cycles alone *)

CycleAngleSet(c) == {c[j][3] : j \in 1..Len(c)}

AllAngleSet(cycles) == UNION {CycleAngleSet(cycles[k][2]) : k \in 1..Len(cycles)}

SidAngleSet(cycles, sid) ==
    UNION {{cycles[k][2][j][3] :
                j \in {m \in 1..Len(cycles[k][2]) : cycles[k][2][m][1] = sid}} :
           k \in 1..Len(cycles)}

AllSids(cycles) == UNION {CycleSids(cycles[k][2]) : k \in 1..Len(cycles)}

SpreadOf(S) == IF S = {} THEN 0 ELSE SetMax(S) - SetMin(S)

RECURSIVE AngleSum(_, _, _)
AngleSum(cycles, lo, hi) ==
    IF lo > hi THEN 0
    ELSE IF lo = hi
         THEN SeqSum([j \in 1..Len(cycles[lo][2]) |-> cycles[lo][2][j][3]])
         ELSE LET mid == (lo + hi) \div 2
              IN  AngleSum(cycles, lo, mid) + AngleSum(cycles, mid + 1, hi)

RECURSIVE ReadingCount(_, _, _)
ReadingCount(cycles, lo, hi) ==
    IF lo > hi THEN 0
    ELSE IF lo = hi THEN Len(cycles[lo][2])
         ELSE LET mid == (lo + hi) \div 2
              IN  ReadingCount(cycles, lo, mid) + ReadingCount(cycles, mid + 1, hi)

\* The sensors whose rank in ascending order lies in [from, to).
SidsRanked(cycles, from, to) ==
    {sid \in AllSids(cycles) :
        LET r == Cardinality({o \in AllSids(cycles) : o < sid})
        IN  from <= r /\ r < to}

SectionSpread(cycles, from, to) ==
    SpreadOf(UNION {SidAngleSet(cycles, sid) : sid \in SidsRanked(cycles, from, to)})

StartSet(cycles) == {cycles[k][1] : k \in 1..Len(cycles)}

\* Every metric but max_curvature has the value the unsampled cycles give.
SeriesMetricsUnsampled ==
    LET r      == result[1]
        cycles == reading_cycles
        n      == Cardinality(AllSids(cycles))
        span   == SetMax(StartSet(cycles)) - SetMin(StartSet(cycles))
        total  == SpreadOf(AllAngleSet(cycles))
    IN  /\ r.duration = <<span, 1000>>
        /\ r.total_rom = total
        /\ r.upper_rom = SectionSpread(cycles, 0, n \div 3)
        /\ r.middle_rom = SectionSpread(cycles, n \div 3, (2 * n) \div 3)
        /\ r.lower_rom = SectionSpread(cycles, (2 * n) \div 3, n)
        /\ r.avg_angle = <<AngleSum(cycles, 1, Len(cycles)),
                           ReadingCount(cycles, 1, Len(cycles))>>
        /\ r.movement_score = IF span > 0 THEN <<total * 1000, span>>
                              ELSE <<0, 1>>
        /\ \A sid \in AllSids(cycles) :
              r.sensor_roms[ToString(sid)] = SpreadOf(SidAngleSet(cycles, sid))

\* max_curvature over the frame of every cycle timestamp, none left out.
CurvatureUnsampled ==
    SetMax({0} \cup
           {CurveCurvature(build_spine_from_angles(
                FrameAngles(time_frames[t], sensor_order))) :
            t \in DOMAIN time_frames})

\* C7 (as amended): every metric of the result except max_curvature
\* (duration, total_rom, upper/middle/lower_rom, avg_angle, movement_score,
\* sensor_roms) has the value computed from the unsampled series of all
\* cycles, whichever cycles the stride selects or the non-zero filter drops.
C7_SeriesMetricsUnsampled ==
    (pc = "done" /\ result # None) => SeriesMetricsUnsampled

\* C7 (as claimed): every metric, max_curvature included, has the value
\* computed from all cycles, whichever frames the sampling leaves out.
C7_AllMetricsUnsampled ==
    (pc = "done" /\ result # None) =>
        /\ SeriesMetricsUnsampled
        /\ result[1].max_curvature = CurvatureUnsampled

\* A result whose frame list lost cycles to the stride (1000 timestamps or
\* more) and to the non-zero filter.
C7_Witness ==
    /\ pc = "done"
    /\ result # None
    /\ Len(timestamps) >= 1000
    /\ 2 * Len(spine_curves) < Len(timestamps)
    /\ \E t \in DOMAIN time_frames : \A sid \in DOMAIN time_frames[t] :
           time_frames[t][sid] = 0

-----------------------------------------------------------------------------
(* The per-sensor series *)

\* C11: for every sensor id, the series collected across all cycles is
\* ordered by time: its timestamps never decrease, whatever the order of the
\* input rows.
C11_SeriesOrdered ==
    pc \in {"metrics", "done"} =>
        \A sid \in DOMAIN sensor_data :
            \A k \in 1..(Len(sensor_data[sid]) - 1) :
                sensor_data[sid][k].ts_ms <= sensor_data[sid][k + 1].ts_ms

-----------------------------------------------------------------------------
(* The rows a file was written from *)

\* Every row some file of the model was written from.
WrittenRows ==
    MidRows
        \cup UNION {Range(f) : f \in HeadRows \cup TailRows \cup ExampleFiles
                                   \cup TwentyMinuteFiles \cup EightMinuteFiles
                                   \cup SectionFiles \cup RestFiles
                                   \cup RomFiles}
        \cup PlainRows
        \cup {Row(0, 0, AccFlat), Row(2 * FIVE_MINUTES_MS + 50, 0, AccFlat)}

\* The row each written text stands for.
WrittenAs ==
    [t \in {CsvRow(r) : r \in WrittenRows} |->
        CHOOSE r \in WrittenRows : CsvRow(r) = t]

\* The row a record stands for, if any: the row it was written from, the
\* row 300020,1,3000,3000,0 for the two records written unusually, none
\* for a record with a missing column or a field that is not an integer.
RowOf(rec) ==
    IF rec \in BadRecords THEN None
    ELSE IF rec \in {SpacedRecord, PlusRecord}
         THEN Some(Row(FIVE_MINUTES_MS + 20, 1, AccBent))
         ELSE Some(WrittenAs[rec])

\* C12: a record with a missing column or a field that does not convert to
\* an integer is dropped without failing the load and without affecting any
\* other record: the loaded sequence is exactly the rows of the valid
\* records, in file order.  (Nothing writes `loaded` once the file is read,
\* so the states right after the load decide it.)
C12_ValidRowsLoaded ==
    (pc = "trim" \/ (pc = "done" /\ rows = <<>>)) =>
        LET kept == SelectSeq(file, LAMBDA rec : RowOf(rec) # None)
        IN  /\ loaded = [k \in 1..Len(kept) |-> RowOf(kept[k])[1]]
            /\ exc = "none"

\* A file loaded with one record dropped from between two that are kept.
C12_Witness ==
    /\ pc = "trim"
    /\ exc = "none"
    /\ Len(loaded) = Len(file) - 1
    /\ \E k \in 2..(Len(file) - 1) :
          /\ file[k] \in BadRecords
          /\ file[k - 1] \notin BadRecords
          /\ file[k + 1] \notin BadRecords

-----------------------------------------------------------------------------
(* Range of motion *)

\* The angles the frame table holds.
FrameTableAngles ==
    UNION {{time_frames[t][sid] : sid \in DOMAIN time_frames[t]} :
           t \in DOMAIN time_frames}

\* C13: total_rom is the largest minus the smallest of the angles of every
\* reading of every sensor in every emitted cycle, the cycles that gave no
\* frame and the cycles hidden by a later cycle of the same start time
\* included.
C13_TotalRomAllReadings ==
    (pc = "done" /\ result # None) =>
        LET readings == UNION {{reading_cycles[k][2][j][3] :
                                    j \in 1..Len(reading_cycles[k][2])} :
                               k \in 1..Len(reading_cycles)}
        IN  result[1].total_rom = SetMax(readings) - SetMin(readings)

\* A result whose total_rom comes from a cycle hidden by a later cycle of
\* the same start time: the frame table alone spans less.
C13_Witness ==
    /\ pc = "done"
    /\ result # None
    /\ \E k, m \in 1..Len(reading_cycles) :
          k < m /\ reading_cycles[k][1] = reading_cycles[m][1]
    /\ result[1].total_rom > SetMax(FrameTableAngles) - SetMin(FrameTableAngles)

\* C14: the sensor order of n sensors is split by index into upper =
\* [0, n//3), middle = [n//3, 2n//3) and lower = [2n//3, n): the sections
\* are contiguous, pairwise disjoint and together cover every sensor; each
\* section ROM is the largest minus the smallest of the pooled angles of its
\* sensors, and a section with no sensor has ROM 0 without error.
C14_SectionRoms ==
    (pc = "done" /\ result # None) =>
        LET r      == result[1]
            cycles == reading_cycles
            n      == Len(sensor_order)
            u      == upper(sensor_order)
            m      == middle(sensor_order)
            l      == lower(sensor_order)
        IN  /\ u \o m \o l = sensor_order
            /\ Len(u) = n \div 3
            /\ Len(u) + Len(m) = (2 * n) \div 3
            /\ Range(u) \cap Range(m) = {}
            /\ Range(u) \cap Range(l) = {}
            /\ Range(m) \cap Range(l) = {}
            /\ Range(u) \cup Range(m) \cup Range(l) = AllSids(cycles)
            /\ r.upper_rom = SectionSpread(cycles, 0, n \div 3)
            /\ r.middle_rom = SectionSpread(cycles, n \div 3, (2 * n) \div 3)
            /\ r.lower_rom = SectionSpread(cycles, (2 * n) \div 3, n)
            /\ u = <<>> => r.upper_rom = 0
            /\ m = <<>> => r.middle_rom = 0
            /\ exc = "none"

\* Two sensors: the upper section is empty with ROM 0, the first sensor is
\* the middle section and carries all the motion.
C14_Witness ==
    /\ pc = "done"
    /\ result # None
    /\ Len(sensor_order) = 2
    /\ upper(sensor_order) = <<>>
    /\ result[1].upper_rom = 0
    /\ result[1].middle_rom > 0
    /\ result[1].lower_rom = 0

-----------------------------------------------------------------------------
(* Movement score *)

\* C15: movement_score is total_rom divided by the duration in seconds, the
\* duration being (largest cycle start time - smallest cycle start time) /
\* 1000, never negative; when the duration is zero movement_score is 0 and
\* nothing is divided by zero, even if total_rom is not zero.
C15_MovementScore ==
    (pc = "done" /\ result # None) =>
        LET r      == result[1]
            starts == {reading_cycles[k][1] : k \in 1..Len(reading_cycles)}
            span   == SetMax(starts) - SetMin(starts)
        IN  /\ r.duration = <<span, 1000>>
            /\ span >= 0
            /\ r.movement_score[2] # 0
            /\ span > 0 => r.movement_score = <<r.total_rom * 1000, span>>
            /\ span = 0 => r.movement_score[1] = 0
            /\ exc = "none"

\* All retained samples in one cycle that spans 45 degrees: the duration
\* is zero and so is the score.
C15_Witness ==
    /\ pc = "done"
    /\ result # None
    /\ Len(reading_cycles) = 1
    /\ result[1].duration[1] = 0
    /\ result[1].total_rom > 0
    /\ result[1].movement_score[1] = 0

-----------------------------------------------------------------------------
(* Frames *)

\* The cycle the frame table holds for cycle time t: the last one emitted
\* with that start time.
LastCycleAt(t) ==
    LET ks == {k \in 1..Len(reading_cycles) : reading_cycles[k][1] = t}
    IN  reading_cycles[SetMax(ks)][2]

\* The angle of sensor sid in cycle c, 0 if the cycle has no reading of it.
AngleIn(c, sid) ==
    IF \E j \in 1..Len(c) : c[j][1] = sid
    THEN c[CHOOSE j \in 1..Len(c) : c[j][1] = sid][3]
    ELSE 0

\* C16: for each selected cycle timestamp the frame's angle list has exactly
\* one entry per sensor, in sensor order, a sensor absent from the cycle
\* contributing 0; the frame is emitted if and only if one of these angles
\* is not zero, so no emitted frame has all angles zero, and the points
\* list of every emitted frame has as many points as there are sensors.
C16_FrameEmission ==
    pc \in {"metrics", "done"} =>
        LET n        == Len(sensor_order)
            selected == Range(SampledTimestamps(timestamps))
            moving(t) == \E k \in 1..n :
                             AngleIn(LastCycleAt(t), sensor_order[k]) # 0
        IN  /\ \A f \in Range(spine_curves) :
                  /\ f.time[2] = 1000
                  /\ f.time[1] \in selected
                  /\ Len(f.angles) = n
                  /\ \A k \in 1..n :
                        f.angles[k] =
                            AngleIn(LastCycleAt(f.time[1]), sensor_order[k])
                  /\ \E k \in 1..n : f.angles[k] # 0
                  /\ Len(f.points) = n
            /\ \A t \in selected :
                  moving(t) <=> \E f \in Range(spine_curves) : f.time[1] = t

\* Two cycles of two sensors: the frame of one is emitted with a 0 for the
\* sensor the cycle lacks, the frame of the other is all zero and left out.
C16_Witness ==
    /\ pc = "done"
    /\ Len(sensor_order) = 2
    /\ Len(timestamps) = 2
    /\ Len(spine_curves) = 1
    /\ \E k \in 1..2 :
          /\ sensor_order[k] \notin DOMAIN time_frames[spine_curves[1].time[1]]
          /\ spine_curves[1].angles[k] = 0

\* C17: the selected timestamps are the ascending distinct cycle start times
\* at indices 0, s, 2s, ... with s = max(1, total // 500); the first cycle
\* timestamp is always selected, and the emitted frames appear in strictly
\* increasing time order.
C17_FixedStride ==
    (pc \in {"metrics", "done"} /\ timestamps # <<>>) =>
        LET total    == Len(timestamps)
            s        == IF total \div 500 >= 1 THEN total \div 500 ELSE 1
            selected == {timestamps[1 + j * s] : j \in 0..((total - 1) \div s)}
            moving(t) == \E sid \in DOMAIN time_frames[t] :
                             time_frames[t][sid] # 0
            frames   == spine_curves
        IN  /\ \A k \in 1..(total - 1) : timestamps[k] < timestamps[k + 1]
            /\ Range(timestamps) =
                  {reading_cycles[k][1] : k \in 1..Len(reading_cycles)}
            /\ timestamps[1] \in selected
            /\ {frames[j].time[1] : j \in 1..Len(frames)} =
                  {t \in selected : moving(t)}
            /\ moving(timestamps[1]) =>
                  frames # <<>> /\ frames[1].time[1] = timestamps[1]
            /\ \A j \in 1..(Len(frames) - 1) :
                  /\ frames[j].time[2] = frames[j + 1].time[2]
                  /\ frames[j].time[1] < frames[j + 1].time[1]

\* A log long enough for a stride of 2: the first two frames are those of
\* the first and the third cycle timestamp.
C17_Witness ==
    /\ pc = "done"
    /\ Len(timestamps) \div 500 = 2
    /\ Len(spine_curves) >= 2
    /\ spine_curves[1].time[1] = timestamps[1]
    /\ spine_curves[2].time[1] = timestamps[3]

-----------------------------------------------------------------------------
(* Cycle keys *)

-----------------------------------------------------------------------------
(* Sensor order *)

\* C19: sensor_order lists every distinct sensor id of the retained rows
\* exactly once, in ascending numeric order, rendered as strings; `sensors`
\* is its length, and sensor_roms has exactly one entry per listed sensor.
C19_SensorOrder ==
    (pc = "done" /\ result # None) =>
        LET r   == result[1]
            ids == {rows[k][2] : k \in 1..Len(rows)}
            nth(k) == CHOOSE x \in ids : Cardinality({y \in ids : y < x}) = k - 1
        IN  /\ Len(r.sensor_order) = Cardinality(ids)
            /\ \A k \in 1..Len(r.sensor_order) :
                  r.sensor_order[k] = ToString(nth(k))
            /\ r.sensors = Len(r.sensor_order)
            /\ DOMAIN r.sensor_roms = Range(r.sensor_order)
            /\ Cardinality(DOMAIN r.sensor_roms) = Len(r.sensor_order)

\* A result for rows that meet sensor 1 before sensor 0.
C19_Witness ==
    /\ pc = "done"
    /\ result # None
    /\ rows[1][2] = 1
    /\ result[1].sensor_order = <<"0", "1">>
    /\ result[1].sensors = 2

-----------------------------------------------------------------------------
(* A session at rest *)

\* C20: for a log of 8 sensors and 10 cycles that survives the trimming and
\* in which every sample's angle is 0, a result is returned, with total_rom
\* 0, movement_score 0, max_curvature 0 and every sensor_roms entry 0.
C20_AllZero ==
    (pc = "done" /\ loaded \in RestFiles) =>
        /\ result # None
        /\ exc = "none"
        /\ result[1].sensors = 8
        /\ result[1].total_rom = 0
        /\ result[1].movement_score[1] = 0
        /\ result[1].movement_score[2] # 0
        /\ result[1].max_curvature = 0
        /\ DOMAIN result[1].sensor_roms =
              {"0", "1", "2", "3", "4", "5", "6", "7"}
        /\ \A s \in DOMAIN result[1].sensor_roms : result[1].sensor_roms[s] = 0

\* The result of such a log: 10 cycles of 8 readings were emitted, every
\* angle 0, and no frame.
C20_Witness ==
    /\ pc = "done"
    /\ loaded \in RestFiles
    /\ result # None
    /\ Len(reading_cycles) = 10
    /\ \A k \in 1..10 :
          /\ Len(reading_cycles[k][2]) = 8
          /\ \A j \in 1..8 : reading_cycles[k][2][j][3] = 0
    /\ spine_curves = <<>>
    /\ result[1].total_rom = 0

-----------------------------------------------------------------------------
(* compute_angle_from_accel called on its own *)

pipeline == <<file, pc, loaded, rows, diag, i, reading_cycles, current_cycle,
              current_cycle_start_time, time_frames, sensor_data, timestamps,
              sensor_order, spine_curves, result, exc>>

\* load_and_analyze_csv not running.
PipelineIdle ==
    /\ file = <<>>
    /\ pc = "idle"
    /\ loaded = <<>>
    /\ rows = <<>>
    /\ diag = "none"
    /\ i = 1
    /\ reading_cycles = <<>>
    /\ current_cycle = <<>>
    /\ current_cycle_start_time = None
    /\ time_frames = <<>>
    /\ sensor_data = <<>>
    /\ timestamps = <<>>
    /\ sensor_order = <<>>
    /\ spine_curves = <<>>
    /\ result = None
    /\ exc = "none"

\* x readings: full scale, around the gimbal threshold, mid range, the
\* substitute for zero and zero, of both signs.
AxSet ==
    LET pos == {scale, gimbalRaw + 1, gimbalRaw, gimbalRaw - 1, 3000, 10}
    IN  pos \cup {-x : x \in pos} \cup {0}

\* y and z readings: around the deadzone threshold, mid range and zero, of
\* both signs.
AyzSet ==
    LET pos == {deadzoneRaw + 1, deadzoneRaw, deadzoneRaw - 1, 3000}
    IN  pos \cup {-y : y \in pos} \cup {0}

AngleInit ==
    /\ PipelineIdle
    /\ ServerIdle
    /\ args \in AxSet \X AyzSet \X AyzSet
    /\ out = None

ComputeAngle ==
    /\ out = None
    /\ out' = Some(compute_angle_from_accel(args[1], args[2], args[3]))
    /\ UNCHANGED <<args, pipeline, server>>

AngleNext == ComputeAngle

AngleSpec == AngleInit /\ [][AngleNext]_vars

\* C21: for every triple with |y| and |z| below the deadzone threshold
\* (3% of 8192, so up to 245) and |x| from 8028 up, the angle is exactly 0
\* when x is positive and exactly 180 when x is negative, whatever the signs
\* of y and z.
C21_GimbalSnap ==
    (/\ out # None
     /\ 100 * Abs(args[2]) < 3 * 8192
     /\ 100 * Abs(args[3]) < 3 * 8192
     /\ Abs(args[1]) >= 8028) =>
        out[1] = IF args[1] > 0 THEN 0 ELSE 180

\* What the deadzone makes of a y or z reading according to the claim:
\* zero when its magnitude is below 3% of 8192.
Deadened(v) == IF 100 * Abs(v) < 3 * 8192 THEN 0 ELSE v

\* C22: a y or z reading whose magnitude is below the deadzone is treated as
\* zero: the angle of every triple equals the angle of the triple with that
\* component replaced by 0, sign included.
C22_DeadzoneAsZero ==
    out # None =>
        /\ out[1] = compute_angle_from_accel(args[1], Deadened(args[2]), args[3])
        /\ out[1] = compute_angle_from_accel(args[1], args[2], Deadened(args[3]))

\* C23: compute_angle_from_accel(8192, 0, 0) is exactly 0 and
\* compute_angle_from_accel(-8192, 0, 0) is exactly 180; the angle of every
\* triple lies in [-180, 180].
C23_PolesAndRange ==
    out # None =>
        /\ args = <<8192, 0, 0>> => out[1] = 0
        /\ args = <<-8192, 0, 0>> => out[1] = 180
        /\ -180 <= out[1] /\ out[1] <= 180

\* Both poles computed, and both ends of the range reached.
C23_Witness ==
    /\ out # None
    /\ args = <<-8192, 0, 0>>
    /\ out[1] = 180
    /\ compute_angle_from_accel(8192, 0, 0) = 0
    /\ compute_angle_from_accel(-3000, 0, -3000) < -90

\* C24: with x exactly 0 the angle is that of x = 10 with the same y and z:
\* the sample counts as having positive x, with no reflection about 180 and
\* no gimbal snap, and with y and z both inside the deadzone the angle is 0.
C24_ZeroXSubstitute ==
    (out # None /\ args[1] = 0) =>
        LET y == args[2]
            z == args[3]
        IN  /\ out[1] = compute_angle_from_accel(10, y, z)
            /\ Abs(out[1]) <= 90
            /\ (Abs(y) < deadzoneRaw /\ Abs(z) < deadzoneRaw) => out[1] = 0
            /\ (Abs(y) >= deadzoneRaw \/ Abs(z) >= deadzoneRaw) =>
                  /\ out[1] # 0
                  /\ out[1] < 0 <=> z < 0

\* x = 0 with y outside the deadzone: a steep angle, below 90 degrees.
C24_Witness ==
    /\ out # None
    /\ args = <<0, deadzoneRaw + 1, 0>>
    /\ out[1] > 45
    /\ out[1] < 90

-----------------------------------------------------------------------------
(* build_spine_from_angles called on its own, and on the average angles    *)
(* of lines 223-229                                                        *)

\* The longest angle list given to the curve builder.
MaxAngles == 3

\* Angles of a segment: upright, leaning either way, level, upside down.
\* The step of a 10 degree segment is an odd number of coordinate units, so
\* that the mean of two points is not a whole number of them.
CurveAngles == {0, 10, 30, -45, 90, 180}

AngleLists == UNION {[1..n -> CurveAngles] : n \in 0..MaxAngles}

\* The readings of one sensor in sensor_data, as lines 190-195 store them.
SensorSeries ==
    {[k \in 1..Len(a) |-> [time |-> Seconds(0), angle |-> a[k], ts_ms |-> 0]] :
        a \in {<<0>>, <<30, -45>>, <<90, 90, 180>>}}

\* sensor_data with its sensor_order, for 1 .. MaxAngles sensors.
SensorTables ==
    UNION {{<<sd, [k \in 1..n |-> k]>> : sd \in [1..n -> SensorSeries]} :
              n \in 1..MaxAngles}

\* A call has either the angle list as its one argument, or the two
\* variables lines 223-229 read.
CurveInit ==
    /\ PipelineIdle
    /\ ServerIdle
    /\ args \in {<<a>> : a \in AngleLists} \cup SensorTables
    /\ out = None

BuildSpine ==
    /\ out = None
    /\ Len(args) = 1
    /\ out' = Some(build_spine_from_angles(args[1]))
    /\ UNCHANGED <<args, pipeline, server>>

\* Lines 223-229: avg_spine of sensor_data and sensor_order.
AvgSpine ==
    /\ out = None
    /\ Len(args) = 2
    /\ out' = Some(build_spine_from_angles(AvgAngles(args[1], args[2])))
    /\ UNCHANGED <<args, pipeline, server>>

CurveNext == BuildSpine \/ AvgSpine

CurveSpec == CurveInit /\ [][CurveNext]_vars

\* C25: build_spine_from_angles returns exactly one point per input angle
\* for every non-empty angle list and the empty list for the empty list;
\* avg_spine therefore has one point per sensor.
C25_PointCount ==
    out # None =>
        /\ Len(args) = 1 =>
              /\ DOMAIN out[1] = DOMAIN args[1]
              /\ args[1] = <<>> => out[1] = <<>>
              /\ \A k \in DOMAIN out[1] : Len(out[1][k]) = 2
        /\ Len(args) = 2 =>
              /\ Len(out[1]) = Len(args[2])
              /\ Len(out[1]) = Cardinality(DOMAIN args[1])

C25_Witness ==
    /\ out # None
    /\ Len(args) = 1
    /\ args[1] = <<30, -45, 90>>
    /\ Len(out[1]) = 3
    /\ out[1][1] # out[1][2]

\* The points before the centering of lines 82-86, in hundredths of a
\* centimetre.
Uncentred(angles) ==
    LET n == Len(angles)
    IN  Reverse(Integrate(Reverse(angles), n,
                          <<0, -((n * spacing_cm * 100) \div 2)>>, <<>>))

\* C26 as stated: for every non-empty angle list the mean of the
\* x-coordinates and the mean of the y-coordinates of the returned points
\* are both 0, and the differences between consecutive points are those of
\* the points before the centering translation.  The averages of lines
\* 83-84 are rounded, so the centred coordinates need not sum to 0:
\* build_spine_from_angles([10, 45]) has a mean x of 4.4e-16 in the code.
C26_MeanExactlyZero ==
    (out # None /\ Len(args) = 1 /\ args[1] # <<>>) =>
        LET pts == out[1]
            n   == Len(pts)
            raw == Uncentred(args[1])
        IN  /\ SeqSum([k \in 1..n |-> pts[k][1]]) = 0
            /\ SeqSum([k \in 1..n |-> pts[k][2]]) = 0
            /\ \A k \in 1..(n - 1) :
                  /\ pts[k + 1][1] - pts[k][1] = raw[k + 1][1] - raw[k][1]
                  /\ pts[k + 1][2] - pts[k][2] = raw[k + 1][2] - raw[k][2]

\* C26, amended: for every non-empty angle list the mean of the
\* x-coordinates and the mean of the y-coordinates of the returned points
\* are both 0 to within the rounding of the arithmetic (less than one
\* coordinate unit), and the differences between consecutive points are
\* those of the points before the centering translation.
C26_Centered ==
    (out # None /\ Len(args) = 1 /\ args[1] # <<>>) =>
        LET pts == out[1]
            n   == Len(pts)
            raw == Uncentred(args[1])
        IN  /\ SeqSum([k \in 1..n |-> pts[k][1]]) \div n = 0
            /\ SeqSum([k \in 1..n |-> pts[k][2]]) \div n = 0
            /\ \A k \in 1..(n - 1) :
                  /\ pts[k + 1][1] - pts[k][1] = raw[k + 1][1] - raw[k][1]
                  /\ pts[k + 1][2] - pts[k][2] = raw[k + 1][2] - raw[k][2]

\* A bent curve whose points were moved by the centering and whose mean
\* is not a whole number of coordinate units.
C26_Witness ==
    /\ out # None
    /\ Len(args) = 1
    /\ args[1] = <<30, 10>>
    /\ SeqSum([k \in 1..2 |-> out[1][k][1]]) # 0
    /\ out[1] # Uncentred(args[1])
    /\ out[1][2][1] - out[1][1][1] # 0
    /\ out[1][2][2] - out[1][1][2] # 0

-----------------------------------------------------------------------------
(* ROM dominance *)

\* C28: in every returned result total_rom is at least upper_rom,
\* middle_rom, lower_rom and every sensor_roms value, and all of these
\* ROM values are at least 0.
C28_RomDominance ==
    (pc = "done" /\ result # None) =>
        LET r == result[1]
        IN  /\ r.total_rom >= r.upper_rom
            /\ r.total_rom >= r.middle_rom
            /\ r.total_rom >= r.lower_rom
            /\ r.upper_rom >= 0
            /\ r.middle_rom >= 0
            /\ r.lower_rom >= 0
            /\ DOMAIN r.sensor_roms = {ToString(sid) : sid \in Range(sensor_order)}
            /\ \A s \in DOMAIN r.sensor_roms :
                  /\ r.total_rom >= r.sensor_roms[s]
                  /\ r.sensor_roms[s] >= 0

\* Three sections that each move, less than the spine as a whole, one
\* sensor not moving at all.
C28_Witness ==
    /\ pc = "done"
    /\ result # None
    /\ result[1].upper_rom > 0
    /\ result[1].middle_rom > 0
    /\ result[1].lower_rom > 0
    /\ result[1].total_rom > result[1].upper_rom
    /\ result[1].total_rom > result[1].middle_rom
    /\ result[1].total_rom > result[1].lower_rom
    /\ \E s \in DOMAIN result[1].sensor_roms :
          0 < result[1].sensor_roms[s] /\ result[1].sensor_roms[s] < result[1].total_rom

-----------------------------------------------------------------------------
(* Cycles sharing a start time *)

\* C29: when two emitted cycles have the same start timestamp the frame
\* table keeps only the later cycle's angles under that timestamp, while
\* the readings of both cycles still enter the per-sensor series and the
\* ROM metrics; the number of frame candidates equals the number of
\* distinct cycle start times, which can be smaller than the number of
\* emitted cycles.
C29_SharedStartTime ==
    pc \in {"metrics", "done"} =>
        LET cycles == reading_cycles
            n      == Len(cycles)
            starts == {cycles[k][1] : k \in 1..n}
            having(sid) == {k \in 1..n : CycleHas(cycles[k][2], sid)}
        IN  /\ DOMAIN time_frames = starts
            /\ \A t \in starts : time_frames[t] = CycleAngles(LastCycleAt(t))
            /\ Range(timestamps) = starts
            /\ Len(timestamps) = Cardinality(starts)
            /\ Len(timestamps) <= n
            /\ DOMAIN sensor_data = AllSids(cycles)
            /\ \A sid \in DOMAIN sensor_data :
                  /\ Len(sensor_data[sid]) = Cardinality(having(sid))
                  /\ \A k \in having(sid) :
                        \E j \in 1..Len(sensor_data[sid]) :
                            /\ sensor_data[sid][j].ts_ms = CycleGet(cycles[k][2], sid)[2]
                            /\ sensor_data[sid][j].angle = CycleGet(cycles[k][2], sid)[3]
            /\ (pc = "done" /\ result # None) =>
                  \A sid \in DOMAIN sensor_data :
                      LET as == {CycleGet(cycles[k][2], sid)[3] : k \in having(sid)}
                      IN  result[1].sensor_roms[ToString(sid)] =
                              SetMax(as) - SetMin(as)

\* Two cycles of one start time in which a sensor has different angles: the
\* frame table has the later one, the sensor's ROM spans both.
C29_Witness ==
    /\ pc = "done"
    /\ result # None
    /\ Len(timestamps) < Len(reading_cycles)
    /\ \E a, b \in 1..Len(reading_cycles) :
          /\ a < b
          /\ reading_cycles[a][1] = reading_cycles[b][1]
          /\ \E sid \in CycleSids(reading_cycles[a][2]) \cap CycleSids(reading_cycles[b][2]) :
                /\ CycleGet(reading_cycles[a][2], sid)[3] # CycleGet(reading_cycles[b][2], sid)[3]
                /\ time_frames[reading_cycles[b][1]][sid] = CycleGet(reading_cycles[b][2], sid)[3]
                /\ result[1].sensor_roms[ToString(sid)] > 0

-----------------------------------------------------------------------------
(* The HTTP server: DashboardHandler.do_POST, lines 1663-1728, behind the  *)
(* TCPServer of lines 1764-1766.  A request is its path, whether it has a  *)
(* Content-Length header, whether its Content-Type names a boundary, and   *)
(* the parts its body splits into at the boundary; a part is whether it    *)
(* contains filename=, whether it contains the blank line that ends its    *)
(* headers, and the content between that blank line and the last line      *)
(* break.  Failures of the connection itself are left out.                 *)

\* The number of requests submitted to the server.
MaxRequests == 2

Part(filename, blank_line, content) ==
    [filename |-> filename, blank_line |-> blank_line, content |-> content]

Request(path, has_length, has_boundary, parts) ==
    [path |-> path, has_length |-> has_length, has_boundary |-> has_boundary,
     parts |-> parts]

\* A log with one sample, leaning, between the first and the last row.
UploadOne ==
    CsvFile(<<Row(0, 0, AccFlat), Row(FIVE_MINUTES_MS, 0, AccBent),
              Row(2 * FIVE_MINUTES_MS, 0, AccFlat)>>)

\* A log with a cycle of two sensors between the first and the last row.
UploadTwo ==
    CsvFile(<<Row(0, 0, AccFlat), Row(FIVE_MINUTES_MS, 0, AccFlat),
              Row(FIVE_MINUTES_MS + 4, 1, AccBent),
              Row(2 * FIVE_MINUTES_MS + 4, 0, AccFlat)>>)

\* A log of one second: the trimming leaves no row.
UploadShort == CsvFile(<<Row(0, 0, AccFlat), Row(1000, 0, AccBent)>>)

\* A form field, as a browser puts before or after the file.
FieldPart == Part(FALSE, TRUE, <<>>)

UploadBodies ==
    {Request("/other", TRUE, TRUE, <<FieldPart, Part(TRUE, TRUE, UploadOne)>>),
     Request("/upload", FALSE, TRUE, <<FieldPart, Part(TRUE, TRUE, UploadOne)>>),
     Request("/upload", TRUE, FALSE, <<FieldPart, Part(TRUE, TRUE, UploadOne)>>),
     Request("/upload", TRUE, TRUE, <<FieldPart, FieldPart>>),
     Request("/upload", TRUE, TRUE, <<FieldPart, Part(TRUE, TRUE, UploadOne), FieldPart>>),
     Request("/upload", TRUE, TRUE, <<FieldPart, Part(TRUE, TRUE, UploadShort),
                                      Part(TRUE, TRUE, UploadTwo), FieldPart>>),
     Request("/upload", TRUE, TRUE, <<FieldPart, Part(TRUE, TRUE, UploadShort), FieldPart>>),
     Request("/upload", TRUE, TRUE, <<FieldPart, Part(TRUE, FALSE, UploadOne)>>)}

\* A response: its status code, and the message of an error or, for 200,
\* the value written by json.dumps, <<>> for null and <<record>> for an
\* object.
Response(code, body) == [code |-> code, body |-> body]

\* Lines 1664-1679: what do_POST does before it looks at the parts.
\* int(None) of a missing Content-Length raises TypeError.
Preamble(req) ==
    IF req.path # "/upload" THEN "ignored"
    ELSE IF ~req.has_length THEN "error"
    ELSE IF ~req.has_boundary THEN "invalid"
    ELSE "parts"

\* Line 1708 with any result taken for a success.
TruthyAlways(res) == TRUE

\* Line 1708: if result
Truthy(res) == res # None

\* A server with a thread for each request.
CanAcceptThreaded(active) == TRUE

\* Lines 1764-1766: socketserver.TCPServer serves in the one thread of
\* serve_forever, a request at a time.
CanAccept(active) == active = {}

Active == {r \in DOMAIN hpc : hpc[r] \notin {"pending", "finished"}}

ServerInit ==
    /\ PipelineIdle
    /\ args = <<>>
    /\ out = None
    /\ requests \in [1..MaxRequests -> UploadBodies]
    /\ hpc = [r \in 1..MaxRequests |-> "pending"]
    /\ idx = [r \in 1..MaxRequests |-> 0]
    /\ responses = [r \in 1..MaxRequests |-> <<>>]

\* The locals of load_and_analyze_csv are those of a new call.
FreshLocals ==
    /\ loaded' = <<>>
    /\ rows' = <<>>
    /\ diag' = "none"
    /\ i' = 1
    /\ reading_cycles' = <<>>
    /\ current_cycle' = <<>>
    /\ current_cycle_start_time' = None
    /\ time_frames' = <<>>
    /\ sensor_data' = <<>>
    /\ timestamps' = <<>>
    /\ sensor_order' = <<>>
    /\ spine_curves' = <<>>
    /\ result' = None
    /\ exc' = "none"

\* Lines 1663-1682: the server takes a request and do_POST starts.
Accept(r) ==
    /\ hpc[r] = "pending"
    /\ CanAccept(Active)
    /\ LET todo == Preamble(requests[r])
       IN  /\ hpc' = [hpc EXCEPT ![r] = IF todo = "parts" THEN "parts"
                                       ELSE "finished"]
           /\ idx' = [idx EXCEPT ![r] = 1]
           /\ responses' =
                 [responses EXCEPT ![r] =
                     IF todo = "error"
                     THEN Append(@, Response(500, "Server error"))
                     ELSE IF todo = "invalid"
                     THEN Append(@, Response(400, "Invalid Content-Type"))
                     ELSE @]
    /\ UNCHANGED <<helper, pipeline, requests>>

\* Lines 1687-1700 and 1721-1722: one part of the loop, or its end.  A part
\* with filename= and no blank line raises IndexError at line 1692.
NextPart(r) ==
    /\ hpc[r] = "parts"
    /\ LET parts == requests[r].parts
       IN  IF idx[r] > Len(parts)
           THEN /\ responses' = [responses EXCEPT ![r] =
                       Append(@, Response(400, "No valid file uploaded"))]
                /\ hpc' = [hpc EXCEPT ![r] = "finished"]
                /\ UNCHANGED <<idx, file>>
           ELSE IF ~parts[idx[r]].filename
           THEN /\ idx' = [idx EXCEPT ![r] = @ + 1]
                /\ UNCHANGED <<hpc, responses, file>>
           ELSE IF ~parts[idx[r]].blank_line
           THEN /\ responses' = [responses EXCEPT ![r] =
                       Append(@, Response(500, "Server error"))]
                /\ hpc' = [hpc EXCEPT ![r] = "finished"]
                /\ UNCHANGED <<idx, file>>
           ELSE /\ file' = parts[idx[r]].content
                /\ hpc' = [hpc EXCEPT ![r] = "written"]
                /\ UNCHANGED <<idx, responses>>
    /\ UNCHANGED <<helper, requests, pc, loaded, rows, diag, i, reading_cycles,
                   current_cycle, current_cycle_start_time, time_frames,
                   sensor_data, timestamps, sensor_order, spine_curves,
                   result, exc>>

\* Line 1706: load_and_analyze_csv(temp_path) is called.
StartAnalysis(r) ==
    /\ hpc[r] = "written"
    /\ pc = "idle"
    /\ pc' = "load"
    /\ FreshLocals
    /\ hpc' = [hpc EXCEPT ![r] = "analyzing"]
    /\ UNCHANGED <<helper, requests, idx, responses, file>>

\* Lines 1706-1728: load_and_analyze_csv has returned or raised.
Respond(r) ==
    /\ hpc[r] = "analyzing"
    /\ pc = "done"
    /\ IF exc # "none"
       THEN /\ responses' = [responses EXCEPT ![r] =
                   Append(@, Response(500, "Server error"))]
            /\ hpc' = [hpc EXCEPT ![r] = "finished"]
            /\ UNCHANGED idx
       ELSE IF Truthy(result)
       THEN /\ responses' = [responses EXCEPT ![r] =
                   Append(@, Response(200, result))]
            /\ hpc' = [hpc EXCEPT ![r] = "finished"]
            /\ UNCHANGED idx
       ELSE /\ idx' = [idx EXCEPT ![r] = @ + 1]
            /\ hpc' = [hpc EXCEPT ![r] = "parts"]
            /\ UNCHANGED responses
    /\ pc' = "idle"
    /\ FreshLocals
    /\ UNCHANGED <<helper, requests, file>>

ServerNext ==
    \/ \E r \in 1..MaxRequests : Accept(r)
    \/ \E r \in 1..MaxRequests : NextPart(r)
    \/ \E r \in 1..MaxRequests : StartAnalysis(r)
    \/ \E r \in 1..MaxRequests : Respond(r)
    \/ Load \/ Trim \/ ProcessSample \/ Flush \/ BuildFrames \/ ComputeMetrics

ServerSpec == ServerInit /\ [][ServerNext]_vars

-----------------------------------------------------------------------------
(* What load_and_analyze_csv returns for the content of a file, lines      *)
(* 92-289 in one piece                                                     *)

RECURSIVE CyclesFrom(_, _, _, _, _)
\* Lines 154-180 from sample k on.
CyclesFrom(rs, k, start, cur, cycles) ==
    IF k > Len(rs) THEN FlushCycle(cycles, start, cur)
    ELSE LET ts    == rs[k][1]
             sid   == rs[k][2]
             angle == compute_angle_from_accel(rs[k][3], rs[k][4], rs[k][5])
         IN  IF StartsNewCycle(start, cur, ts, sid)
             THEN CyclesFrom(rs, k + 1, Some(ts), <<<<sid, ts, angle>>>>,
                             IF cur # <<>>
                             THEN Append(cycles, <<start[1], cur>>)
                             ELSE cycles)
             ELSE CyclesFrom(rs, k + 1, start, CycleSet(cur, sid, ts, angle),
                             cycles)

Analysis(content) ==
    LET parsed == ParseRows(content)
        kept   == TrimRows(parsed)
    IN  IF parsed = <<>> \/ AfterTrim(kept) = "done" THEN None
        ELSE LET cycles == CyclesFrom(kept, 1, None, <<>>, <<>>)
                 tf     == TimeFramesOf(cycles)
                 ts     == SortedKeys(cycles)
                 order  == Sorted(SensorKeys(cycles))
                 sd     == SensorDataOf(cycles)
                 curves == SpineCurvesOf(tf, SampledTimestamps(ts), order)
             IN  Some(Metrics(kept, ts, order, sd, curves))

-----------------------------------------------------------------------------
(* Responses to POST /upload *)

\* The parts of a request that carry a file.
FileParts(req) == {k \in 1..Len(req.parts) : req.parts[k].filename}

\* The file parts at which the loop over the parts ends: the analysis of
\* the content yields a result, or the part raises an exception.
Decisive(req) ==
    {k \in FileParts(req) :
        \/ ~req.parts[k].blank_line
        \/ Analysis(req.parts[k].content) # None}

\* C27: for a POST /upload request, when load_and_analyze_csv yields None
\* for every file part, or there is no file part, the handler answers with
\* an error response (400) and never with 200; when some file part yields a
\* result, exactly one 200 response carrying that result is sent and no
\* error response follows; an exception during handling yields a 500
\* response.
C27_NoResultIs400 ==
    \A r \in DOMAIN requests :
        LET req == requests[r]
            d   == Decisive(req)
        IN  req.path = "/upload" =>
              /\ hpc[r] # "finished" => responses[r] = <<>>
              /\ \A k \in 1..Len(responses[r]) :
                    responses[r][k].code = 200 => hpc[r] = "finished"
              /\ hpc[r] = "finished" =>
                    /\ Len(responses[r]) = 1
                    /\ ~req.has_length => responses[r][1].code = 500
                    /\ (req.has_length /\ ~req.has_boundary) =>
                          responses[r][1].code = 400
                    /\ (req.has_length /\ req.has_boundary /\ d = {}) =>
                          responses[r][1].code = 400
                    /\ (req.has_length /\ req.has_boundary /\ d # {}) =>
                          LET part == req.parts[SetMin(d)]
                          IN  IF part.blank_line
                              THEN /\ responses[r][1].code = 200
                                   /\ responses[r][1].body =
                                          Analysis(part.content)
                              ELSE responses[r][1].code = 500

\* One request whose first file yields None and whose second file yields a
\* result has its 200, another whose only file yields None has its 400.
C27_Witness ==
    \E a, b \in DOMAIN requests :
        /\ hpc[a] = "finished"
        /\ hpc[b] = "finished"
        /\ Cardinality(FileParts(requests[a])) = 2
        /\ Analysis(requests[a].parts[2].content) = None
        /\ responses[a] = <<Response(200, Analysis(requests[a].parts[3].content))>>
        /\ Cardinality(FileParts(requests[b])) = 1
        /\ requests[b].has_length
        /\ requests[b].has_boundary
        /\ Analysis(requests[b].parts[2].content) = None
        /\ Len(responses[b]) = 1
        /\ responses[b][1].code = 400

-----------------------------------------------------------------------------
(* Upload isolation *)

\* C30: requests submitted concurrently are handled one at a time, so the
\* temporary file written for one request is never overwritten by another
\* request between that request's write and the end of its analysis; every
\* 200 response carries the analysis of the content uploaded in its own
\* request.
C30_UploadIsolation ==
    /\ Cardinality(Active) <= 1
    /\ \A r \in DOMAIN requests :
          /\ hpc[r] \in {"written", "analyzing"} =>
                /\ file = requests[r].parts[idx[r]].content
                /\ pc \notin {"idle", "load"} => loaded = ParseRows(file)
          /\ \A k \in 1..Len(responses[r]) :
                responses[r][k].code = 200 =>
                    \E j \in FileParts(requests[r]) :
                        /\ requests[r].parts[j].blank_line
                        /\ Analysis(requests[r].parts[j].content) # None
                        /\ responses[r][k].body =
                               Analysis(requests[r].parts[j].content)

\* Two requests with different files, one answered with the analysis of its
\* own file while the other, submitted at the same time, still waits, and
\* the temporary file holds the first one's content.
C30_Witness ==
    \E a, b \in DOMAIN requests :
        /\ a # b
        /\ hpc[a] = "finished"
        /\ hpc[b] = "pending"
        /\ Decisive(requests[a]) # {}
        /\ Decisive(requests[b]) # {}
        /\ responses[a] # <<>>
        /\ responses[a][1].code = 200
        /\ Analysis(requests[b].parts[SetMin(Decisive(requests[b]))].content) # None
        /\ responses[a][1].body # Analysis(requests[b].parts[SetMin(Decisive(requests[b]))].content)
        /\ requests[b].parts[SetMin(Decisive(requests[b]))].blank_line
        /\ file # requests[b].parts[SetMin(Decisive(requests[b]))].content

====
